---- MODULE Spec2Model ----
(***************************************************************************)
(* RunService (src/backend/services/runs.py) and its HTTP boundary         *)
(* (src/backend/main.py): the run/step state machine, the approval gates   *)
(* and the per-run event queue.                                            *)
(*                                                                         *)
(* Everything runs on one asyncio event loop, so a coroutine runs          *)
(* uninterrupted between two real suspension points.  asyncio.Queue() is   *)
(* unbounded, so "await q.put(...)" never suspends; the suspension points  *)
(* of the executor are its asyncio.sleep calls.  Each executor action      *)
(* below is the code between two consecutive suspension points.            *)
(***************************************************************************)
EXTENDS Naturals, Sequences, FiniteSets, TLC

\* ------------------------------------------------------------------ bounds
\* Number of POST /runs/{id}/approve requests explored.
MaxApprove == 2

\* Number of keepalives one event_generator is followed through.
MaxKeepalive == 1
\* Number of events delivered to consumers when two of them share a queue.
MaxGets == 3
\* Number of reject requests explored while a consumer reads the queue.
MaxStreamApprove == 1

\* Number of approve requests explored while GET /runs/{id} is repeated.
MaxReadsApprove == 1
\* Number of observations explored together: approve requests, runs read,
\* listings taken and subscribers.
MaxObserve == 1

\* Longest failing trace and largest PR number put into a plan's ctx.
MaxTraceLen == 3
MaxPrNumber == 4

\* ------------------------------------------------------------ input domains
RunIds == {"r1"}
None == "None"
GateInputs == {"propose-fix", "merge-pr", "open-pr", None}
DecisionInputs == {"approve", "reject", "maybe", None}
NoteInputs == {"ok"}
RunIdInputs == RunIds \cup {"nonexistent"}
\* What an external collaborator call can do: return a success dict,
\* return an error dict, or raise.
Outcomes == {"ok", "error", "raise"}
\* portia_service.create_portia_plan returns a plan that is "processing"
\* ("ok"), or its import raises; a fallback plan ("error") differs from "ok"
\* by one log line only and is not explored.
\* repo_analyzer.analyze_repository catches its own exceptions
\* (repo_analyzer.py 25-75) and returns a dict.
StepOutcomes(step_name) ==
  CASE step_name = "portia-analysis"    -> {"ok", "raise"}
    [] step_name = "analyze-repository" -> {"ok"}
    [] step_name \in {"push-failing-test", "post-deploy-check"} -> {"ok"}
    [] OTHER -> Outcomes
\* The propose-fix gate action makes two calls; "raise_fix" is the second
\* one (ai_fix_generator) raising after the first succeeded.
GateOutcomes == {"ok", "error", "raise", "raise_fix"}

VARIABLES
  runs,      \* RunService._runs: run id -> run record
  queues,    \* RunService._event_queues: run id -> [log, head, putters];
             \* log is every event ever put, the queue's content is log from
             \* head+1 on, putters the number of coroutines suspended in put
  tasks,     \* RunService._tasks: run id -> where the executor coroutine stands
  writes,    \* run id -> every assignment to a step's status so far, in
             \* order, as [i, from, to, at, run] (history of runs.py 125 and
             \* 391): at is the number of events put before the assignment,
             \* run the run's status when it was made
  calls,     \* number of approve requests made so far
  response,  \* the HTTP response of the last approve request
  reads,     \* what the read-only requests last returned: snap is run id ->
             \* the body of the last GET /runs/{id} (or describe), list the
             \* last listing
  subs,      \* subscriber -> the consumer loop reading a run's queue
             \* (RunService.stream or main.py's event_generator)
  bugplan    \* a BugToPRPlan (agent/plan.py): its ctx dict and the value its
             \* last _risk_score call returned

vars == <<runs, queues, tasks, writes, calls, response, reads, subs, bugplan>>

\* ------------------------------------------------------------------- plan
\* runs.py 134-145: the step sequence and which steps are gates
steps ==
  << [name |-> "fetch-issue-details", gate |-> FALSE],
     [name |-> "portia-analysis",     gate |-> FALSE],
     [name |-> "analyze-repository",  gate |-> FALSE],
     [name |-> "create-branch",       gate |-> FALSE],
     [name |-> "push-failing-test",   gate |-> FALSE],
     [name |-> "propose-fix",         gate |-> TRUE],
     [name |-> "open-pr",             gate |-> FALSE],
     [name |-> "merge-pr",            gate |-> TRUE],
     [name |-> "post-deploy-check",   gate |-> FALSE],
     [name |-> "finalize",            gate |-> FALSE] >>

\* runs.py 77-88: the plan of a new run
InitialPlan ==
  << [name |-> "fetch-issue-details", status |-> "pending"],
     [name |-> "portia-analysis",     status |-> "pending"],
     [name |-> "analyze-repository",  status |-> "pending"],
     [name |-> "create-branch",       status |-> "pending"],
     [name |-> "push-failing-test",   status |-> "pending"],
     [name |-> "propose-fix",         status |-> "pending"],
     [name |-> "open-pr",             status |-> "pending"],
     [name |-> "merge-pr",            status |-> "pending"],
     [name |-> "post-deploy-check",   status |-> "pending"],
     [name |-> "finalize",            status |-> "pending"] >>

\* runs.py 148-156
InitialGithubData ==
  [branch |-> None, pr_url |-> None, pr_number |-> None, pr_title |-> None,
   issue_details |-> None, repo_analysis |-> None, portia_plan |-> None,
   ai_fix |-> None]

\* runs.py 69-93
NewRun ==
  [status |-> "created", plan |-> InitialPlan, approvals |-> <<>>,
   github_data |-> <<>>]

\* ----------------------------------------------------------------- events
NoEventFields ==
  [status |-> "-", plan |-> "-", gate |-> "-", decision |-> "-", note |-> "-"]

\* {"type": "stateChanged", "data": {"status": ...}}
StatusEvent(status) ==
  [type |-> "stateChanged"] @@ [NoEventFields EXCEPT !.status = status]

\* {"type": "stateChanged", "data": {"plan": run["plan"], "status": ...}}:
\* the plan carried is the run's own list object (plan = "ref"), not a copy.
PlanEvent(run) ==
  [type |-> "stateChanged"] @@
  [NoEventFields EXCEPT !.status = run.status, !.plan = "ref"]

LogEvent == [type |-> "log"] @@ NoEventFields

GateEvent(type, gate) == [type |-> type] @@ [NoEventFields EXCEPT !.gate = gate]

DecisionEvent(type, gate, decision, note) ==
  [type |-> type] @@
  [NoEventFields EXCEPT !.gate = gate, !.decision = decision, !.note = note]

FinishedEvent(status) ==
  [type |-> "finished"] @@ [NoEventFields EXCEPT !.status = status]

\* runs.py 95: asyncio.Queue() is built without a maxsize, which is 0
QueueMaxsize == 0

\* a queue built with maxsize 1
QFull_Bounded(q) == Len(q.log) - q.head >= 1

\* asyncio.Queue.full(): never, for maxsize 0
QFull(q) == QueueMaxsize > 0 /\ Len(q.log) - q.head >= QueueMaxsize

\* await q.put(e): the event is appended, unless the queue is full; then
\* the caller is suspended in put (one more putter) until a consumer makes
\* room.
QPut(q, e) ==
  IF QFull(q) THEN [q EXCEPT !.putters = @ + 1]
  ELSE [q EXCEPT !.log = Append(@, e)]

\* ---------------------------------------------------------------- executor
\* An executor context c = [run, q, task, w] is one run's record, its queue,
\* the position of its coroutine and the history of its status writes.

\* A coroutine suspended in put does not go on (it is not followed further).
Put(c, e) == IF c.q.putters > 0 THEN c ELSE [c EXCEPT !.q = QPut(@, e)]

SetStatus(c, status) == [c EXCEPT !.run.status = status]

\* Index of the first plan step called name, 0 when there is none.
FirstIndex(plan, name) ==
  IF \E i \in 1..Len(plan) : plan[i].name = name
    THEN CHOOSE i \in 1..Len(plan) :
           /\ plan[i].name = name
           /\ \A j \in 1..(i - 1) : plan[j].name # name
    ELSE 0

\* runs.py 122-127
\* step["status"] = new_status, for the step at index k
Assign(c, k, new_status) ==
  [c EXCEPT !.run.plan[k].status = new_status,
            !.w = Append(@, [i |-> k, from |-> c.run.plan[k].status,
                             to |-> new_status, at |-> Len(c.q.log),
                             run |-> c.run.status])]

\* runs.py 122-127
update_step(c, step_name, new_status) ==
  LET k  == FirstIndex(c.run.plan, step_name)
      c1 == IF k = 0 THEN c ELSE Assign(c, k, new_status)
  IN Put(c1, PlanEvent(c1.run))

Truthy(v) == v # None

Crash(c) == [c EXCEPT !.task.pc = "crashed"]

\* The body of each ordinary step, run after the step's sleep(0.1), with the
\* outcome o of its collaborator call.  The result is the context and how
\* the iteration goes on: "success" (runs.py 323), "continue" (235),
\* "sleep" (298) or "raise" (the exception leaves _run_plan).
Goes(c, how) == [c |-> c, how |-> how]

\* runs.py 169-177
fetch_issue_details(c, o) ==
  LET c1 == Put(c, LogEvent) IN
  IF o = "raise"
    THEN Goes(Put(c1, LogEvent), "success")
    ELSE Goes(Put([c1 EXCEPT !.run.github_data.issue_details = o], LogEvent),
              "success")

\* runs.py 179-195
portia_analysis(c, o) ==
  LET c1 == Put(c, LogEvent) IN
  IF o = "raise"
    THEN Goes(Put(c1, LogEvent), "success")
    ELSE LET c2 == [c1 EXCEPT !.run.github_data.portia_plan = "set"] IN
         IF o = "ok"
           THEN Goes(Put(Put(c2, LogEvent), LogEvent), "success")
           ELSE Goes(Put(c2, LogEvent), "success")

\* runs.py 197-206
analyze_repository(c, o) ==
  LET c1 == Put(c, LogEvent) IN
  IF o = "raise"
    THEN Goes(Put(c1, LogEvent), "success")
    ELSE Goes(Put([c1 EXCEPT !.run.github_data.repo_analysis = "set"], LogEvent),
              "success")

\* runs.py 208-215: create_branch is called outside any try
create_branch(c, o) ==
  IF o = "raise" THEN Goes(c, "raise")
  ELSE IF o = "ok"
    THEN Goes(Put([c EXCEPT !.run.github_data.branch = "set"], LogEvent),
              "success")
    ELSE Goes(Put(c, LogEvent), "success")

\* runs.py 217-219
push_failing_test(c) == Goes(Put(c, LogEvent), "success")

\* open_pr that puts the step back to pending when there is no fix to commit
open_pr_Retry(c, o) ==
  LET c1 == Put(c, LogEvent)
      gd == c1.run.github_data
  IN IF ~Truthy(gd.ai_fix) \/ ~Truthy(gd.issue_details)
       THEN Goes(update_step(Put(c1, LogEvent), "open-pr", "pending"), "continue")
     ELSE IF o = "raise" THEN Goes(c1, "raise")
     ELSE Goes(Put(Put(c1, LogEvent), LogEvent), "success")

\* runs.py 224-293: one file of the fix is committed, then the PR is opened;
\* o is the outcome of create_pull_request (or of a raising create_file).
open_pr(c, o) ==
  LET c1 == Put(c, LogEvent)
      gd == c1.run.github_data
  IN IF ~Truthy(gd.ai_fix) \/ ~Truthy(gd.issue_details)
       THEN Goes(update_step(Put(c1, LogEvent), "open-pr", "failed"), "continue")
     ELSE IF o = "raise" THEN Goes(c1, "raise")
     ELSE LET c2 == Put(c1, LogEvent) IN
          IF o = "ok"
            THEN Goes(Put([c2 EXCEPT !.run.github_data.pr_url = "set",
                                     !.run.github_data.pr_number = "set",
                                     !.run.github_data.pr_title = "set"],
                          LogEvent), "success")
            ELSE Goes(Put(c2, LogEvent), "success")

\* runs.py 295-298: up to the inner sleep(0.2)
post_deploy_check(c) == Goes(Put(c, LogEvent), "sleep")

\* runs.py 301-321
finalize(c, o) ==
  LET gd == c.run.github_data IN
  IF Truthy(gd.pr_url) /\ Truthy(gd.issue_details)
    THEN IF o = "raise" THEN Goes(c, "raise")
         ELSE IF o = "ok" THEN Goes(Put(c, LogEvent), "success")
         ELSE Goes(c, "success")
    ELSE Goes(c, "success")

\* runs.py 169-321: the if/elif ladder on step_name
StepBody(c, step_name, o) ==
  CASE step_name = "fetch-issue-details" -> fetch_issue_details(c, o)
    [] step_name = "portia-analysis"     -> portia_analysis(c, o)
    [] step_name = "analyze-repository"  -> analyze_repository(c, o)
    [] step_name = "create-branch"       -> create_branch(c, o)
    [] step_name = "push-failing-test"   -> push_failing_test(c)
    [] step_name = "open-pr"             -> open_pr(c, o)
    [] step_name = "post-deploy-check"   -> post_deploy_check(c)
    [] step_name = "finalize"            -> finalize(c, o)
    [] OTHER                             -> Goes(c, "success")

\* runs.py 345-380: the bound action of an approved gate; only propose-fix
\* has one.  get_issue_details and the fix generator are called outside any
\* try.
GateAction(c, step_name, g) ==
  IF step_name # "propose-fix" THEN Goes(c, "success")
  ELSE LET c1 == Put(c, LogEvent) IN
       IF g = "raise" THEN Goes(c1, "raise")
       ELSE IF g = "error" THEN Goes(Put(c1, LogEvent), "success")
       ELSE LET c2 == [c1 EXCEPT !.run.github_data.issue_details = "ok"] IN
            IF g = "raise_fix" THEN Goes(c2, "raise")
            ELSE Goes(Put(Put([c2 EXCEPT !.run.github_data.ai_fix = "set"],
                              LogEvent), LogEvent), "success")

RECURSIVE CancelLoop(_, _, _, _)
\* runs.py 389-393: the loop over run["plan"], at index i
CancelLoop(c, step_name, i, seen) ==
  IF i > Len(c.run.plan) THEN c
  ELSE LET s  == c.run.plan[i]
           c1 == IF seen /\ s.status = "pending"
                   THEN Assign(c, i, "cancelled") ELSE c
       IN CancelLoop(c1, step_name, i + 1, seen \/ s.name = step_name)

\* Mutant of CancelAfter: the loop compares against the wrong name, so seen
\* never becomes true and nothing is cancelled.
CancelAfter_NeverSeen(c, step_name) == CancelLoop(c, "", 1, FALSE)

\* Mutant of CancelAfter: only the step right after the rejected gate is
\* cancelled.
CancelAfter_OnlyNext(c, step_name) ==
  LET k == FirstIndex(c.run.plan, step_name) IN
  IF k + 1 <= Len(c.run.plan) /\ c.run.plan[k + 1].status = "pending"
    THEN Assign(c, k + 1, "cancelled") ELSE c

\* runs.py 387-393
CancelAfter(c, step_name) == CancelLoop(c, step_name, 1, FALSE)

\* Mutant of Reject: the rejected gate is marked failed, like the run.
Reject_MarksFailed(c, step_name) ==
  LET c1 == SetStatus(update_step(c, step_name, "failed"), "failed")
      c2 == CancelAfter(c1, step_name)
      c3 == Put(Put(c2, PlanEvent(c2.run)), FinishedEvent(c2.run.status))
  IN [c3 EXCEPT !.task.pc = "done"]

\* Mutant of Reject: the rejection branch returns without putting finished.
Reject_NoFinished(c, step_name) ==
  LET c1 == SetStatus(update_step(c, step_name, "rejected"), "failed")
      c2 == CancelAfter(c1, step_name)
      c3 == Put(c2, PlanEvent(c2.run))
  IN [c3 EXCEPT !.task.pc = "done"]

\* runs.py 384-397
Reject(c, step_name) ==
  LET c1 == SetStatus(update_step(c, step_name, "rejected"), "failed")
      c2 == CancelAfter(c1, step_name)
      c3 == Put(Put(c2, PlanEvent(c2.run)), FinishedEvent(c2.run.status))
  IN [c3 EXCEPT !.task.pc = "done"]

\* runs.py 399-405
Complete(c) ==
  LET c0 == [c EXCEPT !.task.pc = "done"] IN
  IF c0.run.status \notin {"failed"}
    THEN LET c1 == SetStatus(c0, "completed")
             c2 == Put(c1, StatusEvent(c1.run.status))
             c3 == update_step(c2, steps[Len(steps)].name, "success")
         IN Put(c3, FinishedEvent(c3.run.status))
    ELSE c0

RECURSIVE LoopFrom(_, _, _)

\* runs.py 335-397: the gate has a recorded decision
ResolveGate(c, i, g) ==
  LET step_name     == steps[i].name
      decision_info == c.run.approvals[step_name]
      c1 == Put(c, DecisionEvent("clarificationResolved", step_name,
                                 decision_info.decision, decision_info.note))
  IN IF decision_info.decision = "approve"
       THEN LET c2 == SetStatus(c1, "running")
                c3 == Put(c2, StatusEvent(c2.run.status))
                r  == GateAction(c3, step_name, g)
            IN IF r.how = "raise" THEN Crash(r.c)
               ELSE LoopFrom(update_step(r.c, step_name, "success"), i + 1, g)
       ELSE Reject(c1, step_name)

\* a polling loop that tests the approvals once and then goes on as if the
\* gate had been approved
PollGate_OnePoll(c, i, g) ==
  IF steps[i].name \in DOMAIN c.run.approvals THEN ResolveGate(c, i, g)
  ELSE IF c.task.pc # "poll" THEN [c EXCEPT !.task = [pc |-> "poll", i |-> i]]
  ELSE LoopFrom(update_step(SetStatus(c, "running"), steps[i].name, "success"),
                i + 1, g)

\* runs.py 333-334: one test of the polling loop
PollGate(c, i, g) ==
  IF steps[i].name \notin DOMAIN c.run.approvals
    THEN [c EXCEPT !.task = [pc |-> "poll", i |-> i]]
    ELSE ResolveGate(c, i, g)

\* runs.py 326-331
EnterGate(c, i, g) ==
  LET step_name == steps[i].name
      c1 == update_step(c, step_name, "waiting")
      c2 == Put(c1, GateEvent("clarificationRequested", step_name))
      c3 == SetStatus(c2, "paused")
  IN PollGate(Put(c3, StatusEvent(c3.run.status)), i, g)

\* runs.py 158-167: the head of iteration i of the for loop, up to the next
\* suspension point; i past the last step is the loop's normal end.
LoopFrom(c, i, g) ==
  IF i > Len(steps) THEN Complete(c)
  ELSE IF c.run.status \in {"failed", "completed"} THEN Complete(c)
  ELSE LET c1 == update_step(c, steps[i].name, "running") IN
       IF ~steps[i].gate
         THEN [c1 EXCEPT !.task = [pc |-> "sleep", i |-> i]]
         ELSE EnterGate(c1, i, g)

\* BeginPlan without the assignment of runs.py 130
BeginPlan_StaysCreated(c, g) ==
  LoopFrom([c EXCEPT !.run.github_data = InitialGithubData], 1, g)

\* runs.py 115-163: from the task's start to its first suspension point
BeginPlan(c, g) ==
  LET c1 == SetStatus(c, "running")
      c2 == Put(c1, StatusEvent(c1.run.status))
      c3 == [c2 EXCEPT !.run.github_data = InitialGithubData]
  IN LoopFrom(c3, 1, g)

\* runs.py 167-324: an ordinary step from the end of its sleep(0.1) to the
\* next suspension point
AfterSleep(c, o, g) ==
  LET i == c.task.i
      r == StepBody(c, steps[i].name, o)
  IN CASE r.how = "raise"    -> Crash(r.c)
       [] r.how = "sleep"    -> [r.c EXCEPT !.task.pc = "sleep2"]
       [] r.how = "continue" -> LoopFrom(r.c, i + 1, g)
       [] OTHER -> LoopFrom(update_step(r.c, steps[i].name, "success"), i + 1, g)

\* runs.py 299-324: post-deploy-check after its inner sleep(0.2)
AfterSleep2(c, g) ==
  LET i == c.task.i IN
  LoopFrom(update_step(Put(c, LogEvent), steps[i].name, "success"), i + 1, g)

Ctx(id) ==
  [run |-> runs[id], q |-> queues[id], task |-> tasks[id], w |-> writes[id]]

Commit(id, c) ==
  /\ runs' = [runs EXCEPT ![id] = c.run]
  /\ queues' = [queues EXCEPT ![id] = c.q]
  /\ tasks' = [tasks EXCEPT ![id] =
                 IF c.q.putters > 0 THEN [c.task EXCEPT !.pc = "put"]
                 ELSE c.task]
  /\ writes' = [writes EXCEPT ![id] = c.w]

\* ------------------------------------------------------------ RunService
\* runs.py 56-102: uuid4 is a run id not in use
start(run_id) ==
  /\ run_id \notin DOMAIN runs
  /\ runs' = runs @@ (run_id :> NewRun)
  /\ queues' = queues @@
       (run_id :> QPut([log |-> <<>>, head |-> 0, putters |-> 0],
                       StatusEvent("created")))
  /\ tasks' = tasks @@ (run_id :> [pc |-> "scheduled", i |-> 0])
  /\ writes' = writes @@ (run_id :> <<>>)
  /\ UNCHANGED <<calls, response, reads, subs, bugplan>>

\* runs.py 104-163: the task created by start runs for the first time
run_plan_begin(run_id) ==
  /\ run_id \in DOMAIN tasks
  /\ tasks[run_id].pc = "scheduled"
  /\ \E g \in GateOutcomes : Commit(run_id, BeginPlan(Ctx(run_id), g))
  /\ UNCHANGED <<calls, response, reads, subs, bugplan>>

\* runs.py 167: the executor wakes from a step's sleep(0.1)
run_plan_step(run_id) ==
  /\ run_id \in DOMAIN tasks
  /\ tasks[run_id].pc = "sleep"
  /\ \E o \in StepOutcomes(steps[tasks[run_id].i].name), g \in GateOutcomes :
       Commit(run_id, AfterSleep(Ctx(run_id), o, g))
  /\ UNCHANGED <<calls, response, reads, subs, bugplan>>

\* runs.py 298: the executor wakes from post-deploy-check's sleep(0.2)
run_plan_health(run_id) ==
  /\ run_id \in DOMAIN tasks
  /\ tasks[run_id].pc = "sleep2"
  /\ \E g \in GateOutcomes : Commit(run_id, AfterSleep2(Ctx(run_id), g))
  /\ UNCHANGED <<calls, response, reads, subs, bugplan>>

\* runs.py 333-334: the executor wakes from the polling loop's sleep(0.1)
\* and tests the approvals again
run_plan_poll(run_id) ==
  /\ run_id \in DOMAIN tasks
  /\ tasks[run_id].pc = "poll"
  /\ \E g \in GateOutcomes :
       Commit(run_id, PollGate(Ctx(run_id), tasks[run_id].i, g))
  /\ UNCHANGED <<calls, response, reads, subs, bugplan>>

\* the ids of two runs started on one RunService
TwoRuns == {"r1", "r2"}

\* run["approvals"][gate] = info
Store(approvals, gate, info) ==
  [k \in DOMAIN approvals \cup {gate} |->
     IF k = gate THEN info ELSE approvals[k]]

\* approve that resumes the run itself when the decision is approve
approve_Resumes(rs, qs, run_id, gate, decision, note) ==
  IF run_id \notin DOMAIN rs
    THEN [raised |-> "KeyError", runs |-> rs, queues |-> qs]
  ELSE IF gate \notin {"propose-fix", "merge-pr"}
            \/ decision \notin {"approve", "reject"}
    THEN [raised |-> "ValueError", runs |-> rs, queues |-> qs]
  ELSE [raised |-> "none",
        runs |-> [rs EXCEPT
                    ![run_id].approvals =
                       Store(@, gate, [decision |-> decision, note |-> note]),
                    ![run_id].status =
                       IF decision = "approve" THEN "running" ELSE @],
        queues |-> [qs EXCEPT ![run_id] =
                      QPut(@, DecisionEvent("approvalRecorded", gate,
                                            decision, note))]]

\* approve keeping the decisions in one map for all runs
approve_AllRuns(rs, qs, run_id, gate, decision, note) ==
  IF run_id \notin DOMAIN rs
    THEN [raised |-> "KeyError", runs |-> rs, queues |-> qs]
  ELSE IF gate \notin {"propose-fix", "merge-pr"}
            \/ decision \notin {"approve", "reject"}
    THEN [raised |-> "ValueError", runs |-> rs, queues |-> qs]
  ELSE [raised |-> "none",
        runs |-> [k \in DOMAIN rs |->
                    [rs[k] EXCEPT !.approvals =
                       Store(@, gate, [decision |-> decision, note |-> note])]],
        queues |-> [qs EXCEPT ![run_id] =
                      QPut(@, DecisionEvent("approvalRecorded", gate,
                                            decision, note))]]

\* runs.py 450-476, as a function of the service's state: what it raises and
\* the state it leaves
approve(rs, qs, run_id, gate, decision, note) ==
  IF run_id \notin DOMAIN rs
    THEN [raised |-> "KeyError", runs |-> rs, queues |-> qs]
  ELSE IF gate \notin {"propose-fix", "merge-pr"}
    THEN [raised |-> "ValueError", runs |-> rs, queues |-> qs]
  ELSE IF decision \notin {"approve", "reject"}
    THEN [raised |-> "ValueError", runs |-> rs, queues |-> qs]
  ELSE [raised |-> "none",
        runs |-> [rs EXCEPT ![run_id].approvals =
                    Store(@, gate, [decision |-> decision, note |-> note])],
        queues |-> IF run_id \in DOMAIN qs
                     THEN [qs EXCEPT ![run_id] =
                             QPut(@, DecisionEvent("approvalRecorded", gate,
                                                   decision, note))]
                     ELSE qs]

\* approve_run without the lookup of main.py 124-126
approve_run_NoLookup(run_id, gate, decision, note) ==
  /\ calls < MaxApprove
  /\ calls' = calls + 1
  /\ UNCHANGED <<tasks, writes, reads, subs, bugplan>>
  /\ IF gate = None \/ decision = None
       THEN /\ response' = [status |-> 400, raised |-> "HTTPException"]
            /\ UNCHANGED <<runs, queues>>
     ELSE LET r == approve(runs, queues, run_id, gate, decision, note) IN
          /\ runs' = r.runs
          /\ queues' = r.queues
          /\ response' = IF r.raised = "none"
                           THEN [status |-> 200, raised |-> "none"]
                           ELSE [status |-> 500, raised |-> r.raised]

\* main.py 114-129: POST /runs/{run_id}/approve.  An exception that leaves
\* the handler is answered 500 by the framework.
approve_run(run_id, gate, decision, note) ==
  /\ calls < MaxApprove
  /\ calls' = calls + 1
  /\ UNCHANGED <<tasks, writes, reads, subs, bugplan>>
  /\ IF gate = None \/ decision = None
       THEN /\ response' = [status |-> 400, raised |-> "HTTPException"]
            /\ UNCHANGED <<runs, queues>>
     ELSE IF run_id \notin DOMAIN runs
       THEN /\ response' = [status |-> 404, raised |-> "HTTPException"]
            /\ UNCHANGED <<runs, queues>>
     ELSE LET r == approve(runs, queues, run_id, gate, decision, note) IN
          /\ runs' = r.runs
          /\ queues' = r.queues
          /\ response' = IF r.raised = "none"
                           THEN [status |-> 200, raised |-> "none"]
                           ELSE [status |-> 500, raised |-> r.raised]

\* ----------------------------------------------------------------- reads
\* The body of a run as a read returns it: the run's status, the status of
\* each step and the recorded decisions, with the number of events put (at)
\* and of step assignments made (nw) when it was taken.
Snapshot(run_id) ==
  [status |-> runs[run_id].status,
   plan |-> [i \in 1..Len(runs[run_id].plan) |-> runs[run_id].plan[i].status],
   approvals |-> runs[run_id].approvals,
   at |-> Len(queues[run_id].log),
   nw |-> Len(writes[run_id])]

\* main.py 75-81: GET /runs/{run_id}; the run is serialised as it is now
get_run(run_id) ==
  /\ run_id \in DOMAIN runs
  /\ reads' = [reads EXCEPT !.snap =
                 [k \in DOMAIN @ \cup {run_id} |->
                    IF k = run_id THEN Snapshot(run_id) ELSE @[k]]]
  /\ UNCHANGED <<runs, queues, tasks, writes, calls, response, subs, bugplan>>

\* runs.py 424-430: a copy of the run's dict
describe(run_id) ==
  /\ run_id \in DOMAIN runs
  /\ reads' = [reads EXCEPT !.snap =
                 [k \in DOMAIN @ \cup {run_id} |->
                    IF k = run_id THEN Snapshot(run_id) ELSE @[k]]]
  /\ UNCHANGED <<runs, queues, tasks, writes, calls, response, subs, bugplan>>

\* runs.py 407-422, main.py 62-73: the status of every run
list_runs ==
  /\ reads' = [reads EXCEPT !.list = [k \in DOMAIN runs |-> runs[k].status]]
  /\ UNCHANGED <<runs, queues, tasks, writes, calls, response, subs, bugplan>>

\* ------------------------------------------------------------- consumers
\* A subscriber is one consumer loop on a run's queue:
\*   run   the run id it asked for
\*   kind  "stream" (RunService.stream) or "sse" (main.py event_generator)
\*   since the number of events that had been put when it subscribed
\*   got   what it has yielded so far, in order: the log position of each
\*         event, and 0 for a keepalive
\*   pc    "get" (in its loop), "closed" (the generator returned) or "404"
Subscribers == {"s1", "s2"}

\* asyncio.Queue.get on a queue that is not empty
QGet(q) == [q EXCEPT !.head = @ + 1]

QEmpty(q) == q.head = Len(q.log)

Keepalives(got) == Len(SelectSeq(got, LAMBDA n : n = 0))

\* runs.py 439-442: a consumer starts iterating RunService.stream(run_id)
stream(s, run_id) ==
  /\ s \notin DOMAIN subs
  /\ subs' = subs @@ (s :>
       IF run_id \notin DOMAIN queues
         THEN [run |-> run_id, kind |-> "stream", since |-> 0, got |-> <<>>,
               pc |-> "closed"]
         ELSE [run |-> run_id, kind |-> "stream",
               since |-> Len(queues[run_id].log), got |-> <<>>, pc |-> "get"])
  /\ UNCHANGED <<runs, queues, tasks, writes, calls, response, reads, bugplan>>

\* runs.py 443-448: q.get() returns the queue's first event, the generator
\* yields it and returns if it was "finished"
stream_next(s) ==
  /\ s \in DOMAIN subs
  /\ subs[s].kind = "stream"
  /\ subs[s].pc = "get"
  /\ LET id == subs[s].run
         k  == queues[id].head + 1
     IN /\ ~QEmpty(queues[id])
        /\ queues' = [queues EXCEPT ![id] = QGet(@)]
        /\ subs' = [subs EXCEPT
                      ![s].got = Append(@, k),
                      ![s].pc = IF queues[id].log[k].type = "finished"
                                  THEN "closed" ELSE "get"]
  /\ UNCHANGED <<runs, tasks, writes, calls, response, reads, bugplan>>

\* main.py 83-103: GET /runs/{run_id}/events
get_run_events(s, run_id) ==
  /\ s \notin DOMAIN subs
  /\ subs' = subs @@ (s :>
       IF run_id \notin DOMAIN runs \/ run_id \notin DOMAIN queues
         THEN [run |-> run_id, kind |-> "sse", since |-> 0, got |-> <<>>,
               pc |-> "404"]
         ELSE [run |-> run_id, kind |-> "sse",
               since |-> Len(queues[run_id].log), got |-> <<>>, pc |-> "get"])
  /\ UNCHANGED <<runs, queues, tasks, writes, calls, response, reads, bugplan>>

\* main.py 95-98: q.get() returns within the timeout and the event is yielded
event_generator_next(s) ==
  /\ s \in DOMAIN subs
  /\ subs[s].kind = "sse"
  /\ subs[s].pc = "get"
  /\ LET id == subs[s].run
         k  == queues[id].head + 1
     IN /\ ~QEmpty(queues[id])
        /\ queues' = [queues EXCEPT ![id] = QGet(@)]
        /\ subs' = [subs EXCEPT ![s].got = Append(@, k)]
  /\ UNCHANGED <<runs, tasks, writes, calls, response, reads, bugplan>>

\* main.py 99-101: the queue stayed empty for 30 seconds, a keepalive is
\* yielded
event_generator_timeout(s) ==
  /\ s \in DOMAIN subs
  /\ subs[s].kind = "sse"
  /\ subs[s].pc = "get"
  /\ QEmpty(queues[subs[s].run])
  /\ Keepalives(subs[s].got) < MaxKeepalive
  /\ subs' = [subs EXCEPT ![s].got = Append(@, 0)]
  /\ UNCHANGED <<runs, queues, tasks, writes, calls, response, reads, bugplan>>

\* ------------------------------------------------------------ BugToPRPlan
\* Python values a ctx entry can hold: a str (by its length), an int, None;
\* PyAbsent stands for a key that is not in the dict.
PyNone == [type |-> "NoneType"]
PyAbsent == [type |-> "absent"]
PyStr(n) == [type |-> "str", len |-> n]
PyInt(n) == [type |-> "int", val |-> n]

CtxValues ==
  {PyAbsent, PyNone} \cup {PyStr(n) : n \in 0..MaxTraceLen}
                     \cup {PyInt(n) : n \in 0..MaxPrNumber}

\* dict.get(key): None for a missing key
DictGet(d, key) == IF d[key].type = "absent" THEN PyNone ELSE d[key]

\* the truth value of a Python object, as an if statement takes it
PyBool(v) ==
  CASE v.type = "NoneType" -> FALSE
    [] v.type = "str"      -> v.len > 0
    [] v.type = "int"      -> v.val # 0

PyMin(a, b) == IF a <= b THEN a ELSE b
PyMax(a, b) == IF a >= b THEN a ELSE b

\* _risk_score with the second test nested in the first
risk_score_Nested(ctx) ==
  IF PyBool(DictGet(ctx, "failing_trace"))
    THEN IF PyBool(DictGet(ctx, "pr_number")) THEN 3 ELSE 2
    ELSE 1

\* agent/plan.py 271-302: BugToPRPlan._risk_score
risk_score(ctx) ==
  LET risk0 == 1
      risk1 == IF PyBool(DictGet(ctx, "failing_trace")) THEN risk0 + 1 ELSE risk0
      risk2 == IF PyBool(DictGet(ctx, "pr_number")) THEN risk1 + 1 ELSE risk1
  IN PyMax(1, PyMin(risk2, 5))

\* agent/plan.py 83: a new plan has an empty ctx; risk 0 says _risk_score has
\* not been called
NewBugPlan ==
  [ctx |-> [failing_trace |-> PyAbsent, pr_number |-> PyAbsent], risk |-> 0]

\* plan._risk_score() is called
call_risk_score ==
  /\ bugplan.risk = 0
  /\ bugplan' = [bugplan EXCEPT !.risk = risk_score(bugplan.ctx)]
  /\ UNCHANGED <<runs, queues, tasks, writes, calls, response, reads, subs>>

\* ---------------------------------------------------------- specification
\* runs.py 48-54: RunService()
Init ==
  /\ runs = <<>>
  /\ queues = <<>>
  /\ tasks = <<>>
  /\ writes = <<>>
  /\ calls = 0
  /\ response = [status |-> 0, raised |-> "none"]
  /\ reads = [snap |-> <<>>, list |-> <<>>]
  /\ subs = <<>>
  /\ bugplan = NewBugPlan

Next ==
  \/ \E run_id \in RunIds : start(run_id)
  \/ \E run_id \in RunIds : run_plan_begin(run_id)
  \/ \E run_id \in RunIds : run_plan_step(run_id)
  \/ \E run_id \in RunIds : run_plan_health(run_id)
  \/ \E run_id \in RunIds : run_plan_poll(run_id)
  \/ \E run_id \in RunIdInputs, gate \in GateInputs,
        decision \in DecisionInputs, note \in NoteInputs :
       approve_run(run_id, gate, decision, note)

Spec == Init /\ [][Next]_vars

\* The executor's steps in a run whose gates are not both approved:
\* post-deploy-check, the step after the second gate, is never started, so
\* run_plan_health is never enabled and is left out.
Executor ==
  \/ \E run_id \in RunIds : start(run_id)
  \/ \E run_id \in RunIds : run_plan_begin(run_id)
  \/ \E run_id \in RunIds : run_plan_step(run_id)
  \/ \E run_id \in RunIds : run_plan_poll(run_id)

\* events delivered to consumers so far
Delivered(id) == queues[id].head

\* Two consumers on one run's queue; nobody decides the gate.
NextFanout ==
  \/ Executor
  \/ \E s \in Subscribers, run_id \in RunIds : stream(s, run_id)
  \/ \E s \in Subscribers, run_id \in RunIds : get_run_events(s, run_id)
  \/ \E s \in Subscribers :
       /\ s \in DOMAIN subs
       /\ subs[s].run \in DOMAIN queues
       /\ Delivered(subs[s].run) < MaxGets
       /\ stream_next(s)
  \/ \E s \in Subscribers :
       /\ s \in DOMAIN subs
       /\ subs[s].run \in DOMAIN queues
       /\ Delivered(subs[s].run) < MaxGets
       /\ event_generator_next(s)
  \/ \E s \in Subscribers : event_generator_timeout(s)

SpecFanout == Init /\ [][NextFanout]_vars

\* One consumer reading a run's queue to its end; the run goes to its first
\* gate and is ended there by a reject.
NextStream ==
  \/ Executor
  \/ \E run_id \in RunIds, gate \in {"propose-fix", "merge-pr"},
        decision \in {"reject"}, note \in NoteInputs :
       /\ calls < MaxStreamApprove
       /\ approve_run(run_id, gate, decision, note)
  \/ \E run_id \in RunIds : stream("s1", run_id)
  \/ \E run_id \in RunIds : get_run_events("s1", run_id)
  \/ stream_next("s1")
  \/ event_generator_next("s1")
  \/ event_generator_timeout("s1")

SpecStream == Init /\ [][NextStream]_vars

\* One run, well-formed decisions and a client that reads the run again and
\* again.
NextReads ==
  \/ Executor
  \/ \E run_id \in RunIds, gate \in {"propose-fix", "merge-pr"},
        decision \in {"approve", "reject"}, note \in NoteInputs :
       /\ calls < MaxReadsApprove
       /\ approve_run(run_id, gate, decision, note)
  \/ \E run_id \in RunIds : get_run(run_id)

SpecReads == Init /\ [][NextReads]_vars

\* approve requests made, runs read, listings taken and subscribers so far
Observations ==
  calls + Cardinality(DOMAIN reads.snap)
        + (IF reads.list = <<>> THEN 0 ELSE 1) + Cardinality(DOMAIN subs)

\* One run and the observer-side operations of RunService: approve,
\* describe, list_runs and stream.
NextObserve ==
  \/ Executor
  \/ \E run_id \in RunIds, gate \in {"propose-fix", "merge-pr"},
        decision \in {"approve", "reject"}, note \in NoteInputs :
       /\ Observations < MaxObserve
       /\ approve_run(run_id, gate, decision, note)
  \/ \E run_id \in RunIds :
       /\ Observations < MaxObserve
       /\ describe(run_id)
  \/ /\ Observations < MaxObserve
     /\ runs # <<>>
     /\ list_runs
  \/ \E run_id \in RunIds :
       /\ Observations < MaxObserve
       /\ stream("s1", run_id)
  \/ /\ "s1" \in DOMAIN subs
     /\ subs["s1"].run \in DOMAIN queues
     /\ Delivered(subs["s1"].run) < MaxGets
     /\ stream_next("s1")

SpecObserve == Init /\ [][NextObserve]_vars

\* Two runs on one RunService; r1 is the one started first.  Decisions are
\* sent for a gate that is waiting for one.
NextRuns ==
  \/ start("r1")
  \/ "r1" \in DOMAIN runs /\ start("r2")
  \/ \E run_id \in TwoRuns : run_plan_begin(run_id)
  \/ \E run_id \in TwoRuns : run_plan_step(run_id)
  \/ \E run_id \in TwoRuns : run_plan_health(run_id)
  \/ \E run_id \in TwoRuns : run_plan_poll(run_id)
  \/ \E run_id \in TwoRuns, gate \in {"propose-fix", "merge-pr"},
        decision \in {"approve", "reject"}, note \in NoteInputs :
       /\ run_id \in DOMAIN runs
       /\ runs[run_id].plan[FirstIndex(steps, gate)].status = "waiting"
       /\ gate \notin DOMAIN runs[run_id].approvals
       /\ approve_run(run_id, gate, decision, note)

SpecRuns == Init /\ [][NextRuns]_vars

\* A BugToPRPlan whose ctx holds any failing_trace and pr_number
\* (test_plan.py 25-43 set them directly), and a call of _risk_score.
InitRisk ==
  /\ runs = <<>>
  /\ queues = <<>>
  /\ tasks = <<>>
  /\ writes = <<>>
  /\ calls = 0
  /\ response = [status |-> 0, raised |-> "none"]
  /\ reads = [snap |-> <<>>, list |-> <<>>]
  /\ subs = <<>>
  /\ bugplan \in [ctx : [failing_trace : CtxValues, pr_number : CtxValues],
                   risk : {0}]

NextRisk == call_risk_score

SpecRisk == InitRisk /\ [][NextRisk]_vars

\* ------------------------------------------------------------- vocabulary
Log(id) == queues[id].log

GateNames == {steps[i].name : i \in {j \in 1..Len(steps) : steps[j].gate}}

StepIndex(step_name) == FirstIndex(steps, step_name)

StatusOf(id, i) == runs[id].plan[i].status

Terminal == {"success", "failed", "rejected", "cancelled"}

Ended(id) == tasks[id].pc \in {"done", "crashed"}

\* positions of the log holding an event of this type for this gate
EventsOf(id, type, gate) ==
  {k \in 1..Len(Log(id)) : Log(id)[k].type = type /\ Log(id)[k].gate = gate}

Published(id, type) == \E k \in 1..Len(Log(id)) : Log(id)[k].type = type

\* a reject for G was recorded after G asked for a decision and before G
\* was resolved
RejectRecordedWhileWaiting(id, G) ==
  \E k \in EventsOf(id, "approvalRecorded", G) :
    /\ Log(id)[k].decision = "reject"
    /\ \E j \in EventsOf(id, "clarificationRequested", G) : j < k
    /\ \A j \in EventsOf(id, "clarificationResolved", G) : j > k

\* ------------------------------------------------------------------ claims

\* C1: when a reject decision is recorded for gate G while G is waiting, no
\* step after G is ever set running, and the run ends with G rejected, the
\* run failed and every step after G cancelled.
C1_RejectEndsRun ==
  \A id \in DOMAIN runs : \A G \in GateNames :
    RejectRecordedWhileWaiting(id, G) =>
      /\ \A j \in (StepIndex(G) + 1)..Len(steps) :
           /\ StatusOf(id, j) # "running"
           /\ \A k \in 1..Len(writes[id]) :
                ~(writes[id][k].i = j /\ writes[id][k].to = "running")
      /\ Ended(id) =>
           /\ StatusOf(id, StepIndex(G)) = "rejected"
           /\ runs[id].status = "failed"
           /\ \A j \in (StepIndex(G) + 1)..Len(steps) :
                StatusOf(id, j) = "cancelled"

\* every gate of the run has a recorded decision and no decision recorded
\* for the run was anything but approve
EveryGateApproved(id) ==
  /\ GateNames \subseteq DOMAIN runs[id].approvals
  /\ \A k \in 1..Len(Log(id)) :
       Log(id)[k].type = "approvalRecorded" => Log(id)[k].decision = "approve"

\* C2: a run whose every gate received approve ends completed with every
\* step success.
C2_ApprovedRunAllSuccess ==
  \A id \in DOMAIN runs :
    (tasks[id].pc = "done" /\ EveryGateApproved(id)) =>
      /\ runs[id].status = "completed"
      /\ \A i \in 1..Len(steps) : StatusOf(id, i) = "success"

\* C3: an approve request for a (run, gate) pair that already holds a
\* decision fails (no 200 answer) and records nothing.
C3_DuplicateDecisionFails ==
  [][\A id \in RunIds : \A gate \in GateNames :
       \A decision \in {"approve", "reject"} : \A note \in NoteInputs :
         ( /\ id \in DOMAIN runs
           /\ gate \in DOMAIN runs[id].approvals
           /\ approve_run(id, gate, decision, note) )
         => /\ response'.status # 200
            /\ runs' = runs
            /\ queues' = queues]_vars

\* C4: at most one approvalRecorded event per run and gate is ever put on
\* the run's queue.
C4_OneApprovalRecorded ==
  \A id \in DOMAIN queues : \A G \in GateNames :
    Cardinality(EventsOf(id, "approvalRecorded", G)) <= 1

\* C5: an approve request for a gate whose step is not waiting fails (no 200
\* answer) and is not stored in the run's approvals.
C5_NotWaitingNotBuffered ==
  [][\A id \in RunIds : \A gate \in GateNames :
       \A decision \in {"approve", "reject"} : \A note \in NoteInputs :
         ( /\ id \in DOMAIN runs
           /\ StatusOf(id, StepIndex(gate)) # "waiting"
           /\ approve_run(id, gate, decision, note) )
         => /\ response'.status # 200
            /\ runs' = runs
            /\ queues' = queues]_vars

\* C6: each gate is resolved once, by the first decision recorded for it:
\* the clarificationResolved event carries that decision, and the gate's
\* step ends success or rejected accordingly.
C6_FirstDecisionResolves ==
  \A id \in DOMAIN runs : \A G \in GateNames :
    /\ Cardinality(EventsOf(id, "clarificationResolved", G)) <= 1
    /\ \A k \in EventsOf(id, "clarificationResolved", G) :
         \E j \in EventsOf(id, "approvalRecorded", G) :
           /\ j < k
           /\ \A m \in EventsOf(id, "approvalRecorded", G) : j <= m
           /\ Log(id)[j].decision = Log(id)[k].decision
           /\ Log(id)[j].note = Log(id)[k].note
           /\ StatusOf(id, StepIndex(G)) = "success"
                => Log(id)[j].decision = "approve"
           /\ StatusOf(id, StepIndex(G)) = "rejected"
                => Log(id)[j].decision = "reject"

\* C7: a failed step is terminal for the run: the run is failed, no later
\* step is pending, running or waiting, and finished was emitted.
C7_FailedStepEndsRun ==
  \A id \in DOMAIN runs : \A i \in 1..Len(steps) :
    StatusOf(id, i) = "failed" =>
      /\ runs[id].status = "failed"
      /\ \A j \in (i + 1)..Len(steps) :
           StatusOf(id, j) \notin {"pending", "running", "waiting"}
      /\ Published(id, "finished")

\* C8: the executor task never ends with an uncaught exception, and a task
\* that has ended leaves a terminal run status and no step running or
\* waiting.
C8_NoUncaughtException ==
  \A id \in DOMAIN tasks :
    /\ tasks[id].pc # "crashed"
    /\ Ended(id) =>
         /\ runs[id].status \in {"completed", "failed"}
         /\ \A i \in 1..Len(steps) : StatusOf(id, i) \notin {"running", "waiting"}

Active(id) == {i \in 1..Len(steps) : StatusOf(id, i) \in {"running", "waiting"}}

OneActiveOrAllTerminal(id) ==
  \/ Cardinality(Active(id)) = 1
  \/ \A i \in 1..Len(steps) : StatusOf(id, i) \in Terminal

\* C9 as stated: in every reachable state exactly one step is running or
\* waiting, or all steps are terminal.
C9_OneActiveAlways == \A id \in DOMAIN runs : OneActiveOrAllTerminal(id)

\* C9 amended: the same, in every state another coroutine can observe (the
\* executor is at a suspension point or has ended) once the run has left
\* status created.
C9_OneActiveOnceStarted ==
  \A id \in DOMAIN runs :
    runs[id].status # "created" => OneActiveOrAllTerminal(id)

\* a rejected run at its end: every step terminal, the ones after the gate
\* cancelled
C9_Witness ==
  \E id \in DOMAIN runs :
    /\ tasks[id].pc = "done"
    /\ runs[id].status = "failed"
    /\ \E i \in 1..Len(steps) : StatusOf(id, i) = "cancelled"
    /\ \A i \in 1..Len(steps) : StatusOf(id, i) \in Terminal

\* write number k of the run is one of the transitions of the step state
\* machine, or writes the value the step already has
AllowedWrite(id, k) ==
  LET w == writes[id][k] IN
  \/ w.from = w.to
  \/ w.from = "pending" /\ w.to = "running"
  \/ w.from = "running" /\ w.to \in {"success", "failed", "waiting"}
  \/ w.from = "waiting" /\ w.to \in {"success", "rejected"} /\ steps[w.i].gate
  \/ /\ w.from = "pending" /\ w.to = "cancelled"
     /\ \E m \in 1..(k - 1) : writes[id][m].to = "rejected"

\* C10: every assignment to a step's status follows pending -> running ->
\* {success, failed, waiting}, waiting -> {success, rejected} (gates only)
\* or pending -> cancelled after a rejection; a terminal status is never
\* replaced by another.
C10_MonotonicSteps ==
  \A id \in DOMAIN writes : \A k \in 1..Len(writes[id]) :
    /\ AllowedWrite(id, k)
    /\ writes[id][k].from \in Terminal => writes[id][k].to = writes[id][k].from

\* a run whose first gate was approved and whose second was rejected
C10_Witness ==
  \E id \in DOMAIN writes :
    /\ \E k \in 1..Len(writes[id]) :
         writes[id][k].from = "waiting" /\ writes[id][k].to = "success"
    /\ \E k \in 1..Len(writes[id]) :
         writes[id][k].from = "waiting" /\ writes[id][k].to = "rejected"
    /\ \E k \in 1..Len(writes[id]) :
         writes[id][k].from = "pending" /\ writes[id][k].to = "cancelled"

\* ---------------------------------------------------------------- C11
\* Every assignment to run["status"] (runs.py 130, 330, 341, 386, 401) is
\* followed, before the next one, by a stateChanged event carrying the new
\* status, so the statuses of the stateChanged events are the history of the
\* run's status.
StatusHistory(id) ==
  LET sc == SelectSeq(Log(id), LAMBDA e : e.type = "stateChanged")
  IN [k \in 1..Len(sc) |-> sc[k].status]

RunStatusMoves ==
  { <<"created", "running">>, <<"running", "paused">>,
    <<"paused", "running">>,
    <<"running", "completed">>, <<"running", "failed">>,
    <<"paused", "completed">>, <<"paused", "failed">> }

\* C11: a run's status moves only created -> running, running -> paused,
\* paused -> running, and running or paused -> completed or failed;
\* completed and failed are never left, and no step is assigned running or
\* waiting once the run's status is completed or failed.
C11_RunStatusMoves ==
  \A id \in DOMAIN runs :
    LET h == StatusHistory(id) IN
    /\ Len(h) >= 1
    /\ h[1] = "created"
    /\ runs[id].status = h[Len(h)]
    /\ \A k \in 1..(Len(h) - 1) :
         h[k] = h[k + 1] \/ <<h[k], h[k + 1]>> \in RunStatusMoves
    /\ \A k \in 1..Len(writes[id]) :
         writes[id][k].run \in {"completed", "failed"}
           => writes[id][k].to \notin {"running", "waiting"}

\* a run that was paused, resumed and completed, and whose last step was
\* assigned a status after the run had completed (runs.py 401-403)
C11_Witness ==
  \E id \in DOMAIN runs :
    LET h == StatusHistory(id) IN
    /\ runs[id].status = "completed"
    /\ \E k \in 1..(Len(h) - 1) : h[k] = "paused" /\ h[k + 1] = "running"
    /\ \E k \in 1..Len(writes[id]) : writes[id][k].run = "completed"

\* ---------------------------------------------------------------- C12
GateIndexes == {i \in 1..Len(steps) : steps[i].gate}

\* the status step i had when event k of the log was put: the last status
\* assigned to it before that put
StatusAt(id, i, k) ==
  LET ws == {m \in 1..Len(writes[id]) :
               writes[id][m].i = i /\ writes[id][m].at < k}
  IN IF ws = {} THEN "pending"
     ELSE writes[id][CHOOSE m \in ws : \A n \in ws : n <= m].to

\* C12: whenever a run's status is paused at least one gated step is
\* waiting, both in every state of the run and in every stateChanged event
\* that carries the status paused together with the plan.
C12_PausedHasWaitingGate ==
  \A id \in DOMAIN runs :
    /\ runs[id].status = "paused"
         => \E i \in GateIndexes : StatusOf(id, i) = "waiting"
    /\ \A k \in 1..Len(Log(id)) :
         LET e == Log(id)[k] IN
         (e.type = "stateChanged" /\ e.status = "paused" /\ e.plan = "ref")
           => \E i \in GateIndexes : StatusAt(id, i, k) = "waiting"

\* ---------------------------------------------------------------- C13
\* gate G of run id is waiting and no decision is recorded for it
WaitingUndecided(id, G) ==
  /\ StatusOf(id, StepIndex(G)) = "waiting"
  /\ G \notin DOMAIN runs[id].approvals

\* C13: while a gate is waiting and no decision is recorded for it, the
\* run is paused with every later step pending, and no step of the program
\* changes the plan, the run's status or the executor's position.
C13_WaitsForDecision ==
  /\ [](\A id \in DOMAIN runs : \A G \in GateNames :
          WaitingUndecided(id, G) =>
            /\ runs[id].status = "paused"
            /\ tasks[id] = [pc |-> "poll", i |-> StepIndex(G)]
            /\ \A j \in (StepIndex(G) + 1)..Len(steps) :
                 StatusOf(id, j) = "pending")
  /\ [][\A id \in DOMAIN runs : \A G \in GateNames :
          WaitingUndecided(id, G) =>
            /\ runs'[id].plan = runs[id].plan
            /\ runs'[id].status = runs[id].status
            /\ tasks'[id] = tasks[id]
            /\ writes'[id] = writes[id]]_vars

\* the executor polls merge-pr, which nobody has decided, after propose-fix
\* was decided
C13_Witness ==
  \E id \in DOMAIN runs :
    /\ WaitingUndecided(id, "merge-pr")
    /\ tasks[id].pc = "poll"
    /\ "propose-fix" \in DOMAIN runs[id].approvals

\* ---------------------------------------------------------------- C14
\* C14: a request that records a decision for a run id that does not exist
\* is answered not found (404; RunService.approve raises KeyError) and
\* changes no run, queue, task or subscriber.
C14_UnknownRunNotFound ==
  [][\A run_id \in RunIdInputs, gate \in GateInputs \ {None},
        decision \in DecisionInputs \ {None}, note \in NoteInputs :
       (run_id \notin DOMAIN runs /\ approve_run(run_id, gate, decision, note))
         => /\ response'.status = 404
            /\ approve(runs, queues, run_id, gate, decision, note).raised
                 = "KeyError"
            /\ UNCHANGED <<runs, queues, tasks, writes, reads, subs>>]_vars

\* a request for an unknown id was answered 404 while a run existed
C14_Witness ==
  /\ response.status = 404
  /\ "r1" \in DOMAIN runs
  /\ tasks["r1"].pc = "poll"

\* ---------------------------------------------------------------- C15
\* C15: a request to an existing run with gate or decision missing, or with
\* a decision that is neither approve nor reject, is answered 400 and
\* leaves the run's approvals, status, plan and queue as they were.
C15_InvalidRequest400 ==
  [][\A run_id \in DOMAIN runs, gate \in GateInputs,
        decision \in DecisionInputs, note \in NoteInputs :
       ( /\ approve_run(run_id, gate, decision, note)
         /\ \/ gate = None
            \/ decision = None
            \/ decision \notin {"approve", "reject"} )
         => /\ response'.status = 400
            /\ UNCHANGED <<runs, queues>>]_vars

\* ---------------------------------------------------------------- C16
\* the log positions of the events subscriber s has received
Received(s) == {subs[s].got[n] : n \in 1..Len(subs[s].got)} \ {0}

\* C16: every observer of a run receives every event published after it
\* subscribed, in publication order: such an event has been received by
\* the observer or is still in the queue the observer reads, whatever the
\* other observers have consumed.
C16_EveryObserverGetsEveryEvent ==
  \A s \in DOMAIN subs :
    subs[s].pc = "get" =>
      LET id  == subs[s].run
          got == SelectSeq(subs[s].got, LAMBDA n : n # 0)
      IN /\ \A n \in 1..(Len(got) - 1) : got[n] < got[n + 1]
         /\ \A k \in (subs[s].since + 1)..Len(Log(id)) :
              k \in Received(s) \/ k > queues[id].head

\* ---------------------------------------------------------------- C17
\* subscriber s has been delivered the event at position n of what it got,
\* and that event is the run's "finished"
GotFinished(s, n) ==
  /\ n \in 1..Len(subs[s].got)
  /\ subs[s].got[n] # 0
  /\ Log(subs[s].run)[subs[s].got[n]].type = "finished"

\* C17: for RunService.stream and for the events endpoint, once finished
\* has been delivered to a subscriber its sequence has ended: finished is
\* the last thing it got and its generator has returned.
C17_StreamEndsWithFinished ==
  \A s \in DOMAIN subs : \A n \in 1..Len(subs[s].got) :
    GotFinished(s, n) => (n = Len(subs[s].got) /\ subs[s].pc = "closed")

\* ---------------------------------------------------------------- C18
\* C18: finished is put on a run's queue at most once, and nothing is put
\* after it, an approvalRecorded from a late approve included.
C18_FinishedIsLast ==
  \A id \in DOMAIN queues :
    /\ Cardinality(EventsOf(id, "finished", "-")) <= 1
    /\ \A k \in EventsOf(id, "finished", "-") : k = Len(Log(id))

\* ---------------------------------------------------------------- C19
\* C19: publishing never suspends the executor on consumers.  No coroutine
\* is ever suspended in put, and whatever part of the queue consumers have
\* taken, from nothing (no subscriber, or one that never reads) to all of
\* it (a fast subscriber), the next put appends the event at once: the
\* executor's steps are the same in every case.
C19_PutNeverBlocks ==
  \A id \in DOMAIN queues :
    /\ queues[id].putters = 0
    /\ tasks[id].pc # "put"
    /\ \A h \in 0..Len(Log(id)) :
         LET q == QPut([queues[id] EXCEPT !.head = h], LogEvent)
         IN q.putters = 0 /\ q.log = Append(Log(id), LogEvent)

\* a run went through all its steps and completed while nobody had read a
\* single event of its queue
C19_Witness ==
  \E id \in DOMAIN runs :
    /\ runs[id].status = "completed"
    /\ \A i \in 1..Len(steps) : StatusOf(id, i) = "success"
    /\ queues[id].head = 0
    /\ Published(id, "finished")

\* ---------------------------------------------------------------- C20
\* C20: a recorded decision is write-once: once approvals[gate] holds a
\* value, no later step of the program, a later approve call included,
\* removes or changes it.
C20_DecisionWriteOnce ==
  [][\A id \in DOMAIN runs : \A gate \in DOMAIN runs[id].approvals :
       /\ gate \in DOMAIN runs'[id].approvals
       /\ runs'[id].approvals[gate] = runs[id].approvals[gate]]_vars

\* ---------------------------------------------------------------- C21
\* the values of seq that were followed by a different value
LeftIn(seq) ==
  {seq[k] : k \in {j \in 1..Len(seq) :
                     \E m \in (j + 1)..Len(seq) : seq[m] # seq[j]}}

\* the statuses the run had left when snapshot e was taken
StatusesLeft(id, e) ==
  LET sc == SelectSeq(SubSeq(Log(id), 1, e.at),
                      LAMBDA v : v.type = "stateChanged")
  IN LeftIn([k \in 1..Len(sc) |-> sc[k].status])

\* the statuses step i had left when snapshot e was taken
StepStatusesLeft(id, i, e) ==
  {writes[id][k].from : k \in {j \in 1..e.nw :
      writes[id][j].i = i /\ writes[id][j].from # writes[id][j].to}}

\* the decisions for gate that had been replaced when snapshot e was taken
DecisionsLeft(id, gate, e) ==
  LET ar == SelectSeq(SubSeq(Log(id), 1, e.at),
              LAMBDA v : v.type = "approvalRecorded" /\ v.gate = gate)
  IN LeftIn([k \in 1..Len(ar) |->
               [decision |-> ar[k].decision, note |-> ar[k].note]])

\* a GET /runs/{id} is answered after an earlier one
SecondRead(id) ==
  /\ id \in DOMAIN reads.snap
  /\ get_run(id)

StepOf(A) ==
  \/ start(A)
  \/ run_plan_begin(A)
  \/ run_plan_step(A)
  \/ run_plan_health(A)
  \/ run_plan_poll(A)
  \/ \E gate \in GateInputs, decision \in DecisionInputs, note \in NoteInputs :
       approve_run(A, gate, decision, note)

\* C22: runs are isolated: an executor step or an approve call for run A
\* leaves every other run's record (status, plan, approvals, github_data),
\* queue, task and write history as they were.
C22_RunsIsolated ==
  [][\A A \in TwoRuns : \A B \in DOMAIN runs \ {A} :
       StepOf(A) => /\ runs'[B] = runs[B]
                    /\ queues'[B] = queues[B]
                    /\ tasks'[B] = tasks[B]
                    /\ writes'[B] = writes[B]]_vars

\* r1 was approved at propose-fix and went on to its second gate while r2
\* still waits, undecided, at its first
C22_Witness ==
  /\ DOMAIN runs = TwoRuns
  /\ "propose-fix" \in DOMAIN runs["r1"].approvals
  /\ StatusOf("r1", StepIndex("propose-fix")) = "success"
  /\ StatusOf("r1", StepIndex("merge-pr")) = "waiting"
  /\ WaitingUndecided("r2", "propose-fix")
  /\ runs["r2"].github_data # runs["r1"].github_data

\* ---------------------------------------------------------------- C23
\* a step of one of the observer-side operations
ObserverStep ==
  \/ \E run_id \in RunIdInputs, gate \in GateInputs,
        decision \in DecisionInputs, note \in NoteInputs :
       approve_run(run_id, gate, decision, note)
  \/ \E run_id \in RunIds : describe(run_id)
  \/ list_runs
  \/ \E s \in Subscribers, run_id \in RunIds : stream(s, run_id)
  \/ \E s \in Subscribers : stream_next(s)

\* a step of the executor of run id
ExecutorStep(id) ==
  \/ run_plan_begin(id)
  \/ run_plan_step(id)
  \/ run_plan_health(id)
  \/ run_plan_poll(id)

\* C23: approve, describe, list_runs and stream leave every run's status and
\* every step's status as they were; a step that changes one of them is a
\* step of that run's executor.
C23_ObserversSetNoStatus ==
  [][\A id \in DOMAIN runs :
       /\ ObserverStep => /\ runs'[id].status = runs[id].status
                           /\ runs'[id].plan = runs[id].plan
       /\ (runs'[id].status # runs[id].status \/ runs'[id].plan # runs[id].plan)
            => ExecutorStep(id)]_vars

\* an approve was accepted for the gate the run waits at, and the run is
\* still paused with the gate waiting
C23_Witness ==
  \E id \in DOMAIN runs :
    /\ response.status = 200
    /\ "propose-fix" \in DOMAIN runs[id].approvals
    /\ runs[id].approvals["propose-fix"].decision = "approve"
    /\ StatusOf(id, StepIndex("propose-fix")) = "waiting"
    /\ runs[id].status = "paused"

\* ---------------------------------------------------------------- C24
\* C24: the executor's wait at a gate is a suspension, not a poll: while a
\* gate is waiting and no decision is recorded for it, no step of the
\* executor is possible; only the recording of the decision wakes it.
C24_GateWaitIsSuspension ==
  \A id \in DOMAIN runs : \A G \in GateNames :
    WaitingUndecided(id, G) =>
      /\ ~ENABLED run_plan_poll(id)
      /\ ~ENABLED run_plan_step(id)
      /\ ~ENABLED run_plan_health(id)
      /\ ~ENABLED run_plan_begin(id)

\* ---------------------------------------------------------------- C25
OneIf(b) == IF b THEN 1 ELSE 0

\* C25: _risk_score returns an integer from 1 to 5: 1, plus one if ctx
\* holds a truthy failing_trace, plus one if ctx holds a truthy pr_number;
\* 1 for an empty ctx, 2 with a failing trace only, 3 with both.
C25_RiskScore ==
  bugplan.risk # 0 =>
    LET ft == bugplan.ctx.failing_trace
        pr == bugplan.ctx.pr_number
        truthy(v) == \/ v.type = "str" /\ v.len > 0
                     \/ v.type = "int" /\ v.val # 0
    IN /\ bugplan.risk \in 1..5
       /\ bugplan.risk = 1 + OneIf(truthy(ft)) + OneIf(truthy(pr))
       /\ (ft = PyAbsent /\ pr = PyAbsent) => bugplan.risk = 1
       /\ (ft = PyStr(3) /\ pr = PyAbsent) => bugplan.risk = 2
       /\ (ft = PyStr(3) /\ pr = PyInt(4)) => bugplan.risk = 3

\* _risk_score was called with a PR number and no failing trace
C25_Witness ==
  /\ bugplan.risk = 2
  /\ bugplan.ctx.failing_trace = PyStr(0)
  /\ bugplan.ctx.pr_number = PyInt(1)

\* ---------------------------------------------------------------- C26
\* the position of the last stateChanged event before position k, 0 if none
LastStateChanged(id, k) ==
  LET sc == {j \in 1..(k - 1) : Log(id)[j].type = "stateChanged"}
  IN IF sc = {} THEN 0 ELSE CHOOSE j \in sc : \A m \in sc : m <= j

\* an approve for G was recorded after G asked for a decision and before
\* position k
ApprovedWhileWaiting(id, G, k) ==
  \E a \in EventsOf(id, "approvalRecorded", G) :
    /\ a < k
    /\ Log(id)[a].decision = "approve"
    /\ \E r \in EventsOf(id, "clarificationRequested", G) : r < a

\* C26: when a waiting gate is approved the run's status is set to running
\* and its stateChanged event is put before clarificationResolved for the
\* gate is put (the last stateChanged before clarificationResolved carries
\* running), and the gate is set to success only after its bound action ran
\* (after the events of the resolution).
C26_ResumedBeforeResolved ==
  \A id \in DOMAIN runs : \A G \in GateNames :
    \A k \in EventsOf(id, "clarificationResolved", G) :
      (Log(id)[k].decision = "approve" /\ ApprovedWhileWaiting(id, G, k)) =>
        /\ LastStateChanged(id, k) # 0
        /\ Log(id)[LastStateChanged(id, k)].status = "running"
        /\ \A m \in 1..Len(writes[id]) :
             (writes[id][m].i = StepIndex(G) /\ writes[id][m].to = "success")
               => writes[id][m].at > k

\* ---------------------------------------------------------------- C27
\* C27: on a run's channel the events of a gate G come in the order
\* clarificationRequested, approvalRecorded, clarificationResolved: every
\* approvalRecorded for G has a clarificationRequested for G before it, and
\* every clarificationResolved for G has before it an approvalRecorded for
\* G with the same decision and note.
C27_GateEventOrder ==
  \A id \in DOMAIN runs : \A G \in GateNames :
    /\ \A a \in EventsOf(id, "approvalRecorded", G) :
         \E r \in EventsOf(id, "clarificationRequested", G) : r < a
    /\ \A k \in EventsOf(id, "clarificationResolved", G) :
         \E a \in EventsOf(id, "approvalRecorded", G) :
           /\ a < k
           /\ Log(id)[a].decision = Log(id)[k].decision
           /\ Log(id)[a].note = Log(id)[k].note

\* ---------------------------------------------------------------- C28
Finished == {"success", "failed", "rejected"}

\* the plan of run id reads: p finished steps, then at most one running or
\* waiting step, then pending steps only or cancelled steps only
PlanShape(id) ==
  \E p \in 0..Len(steps) : \E a \in {p, p + 1} :
    /\ a <= Len(steps)
    /\ \A i \in 1..p : StatusOf(id, i) \in Finished
    /\ a = p + 1 => StatusOf(id, a) \in {"running", "waiting"}
    /\ \/ \A i \in (a + 1)..Len(steps) : StatusOf(id, i) = "pending"
       \/ \A i \in (a + 1)..Len(steps) : StatusOf(id, i) = "cancelled"

\* C28: steps are processed in plan order: the plan always reads as a
\* prefix of finished steps (success, failed or rejected), then at most one
\* running or waiting step, then a suffix that is entirely pending or
\* entirely cancelled, and a step is cancelled only when an earlier step is
\* rejected.
C28_PlanOrder ==
  \A id \in DOMAIN runs :
    /\ PlanShape(id)
    /\ \A i \in 1..Len(steps) :
         StatusOf(id, i) = "cancelled"
           => \E j \in 1..(i - 1) : StatusOf(id, j) = "rejected"

\* merge-pr waits after open-pr failed, and the steps after it are pending
C28_Witness ==
  \E id \in DOMAIN runs :
    /\ StatusOf(id, StepIndex("open-pr")) = "failed"
    /\ StatusOf(id, StepIndex("merge-pr")) = "waiting"
    /\ StatusOf(id, Len(steps)) = "pending"

\* ---------------------------------------------------------------- C29
\* a decision is sent for a gate of the run that is waiting for one
decide(run_id) ==
  \E gate \in GateNames, decision \in {"approve", "reject"},
     note \in NoteInputs :
    /\ run_id \in DOMAIN runs
    /\ WaitingUndecided(run_id, gate)
    /\ approve_run(run_id, gate, decision, note)

NextLive ==
  \/ \E run_id \in RunIds : start(run_id)
  \/ \E run_id \in RunIds : run_plan_begin(run_id)
  \/ \E run_id \in RunIds : run_plan_step(run_id)
  \/ \E run_id \in RunIds : run_plan_health(run_id)
  \/ \E run_id \in RunIds : run_plan_poll(run_id)
  \/ \E run_id \in RunIds : decide(run_id)

\* the positions a task can be at
TaskStates ==
  [pc : {"scheduled", "sleep", "sleep2", "poll", "put", "done", "crashed"},
   i  : 0..Len(steps)]

\* the executor's task has been created or is in a sleep that elapses, and
\* in the polling loop its test will find a decision
Runnable(id) ==
  /\ id \in DOMAIN tasks
  /\ \/ tasks[id].pc \in {"scheduled", "sleep", "sleep2"}
     \/ /\ tasks[id].pc = "poll"
        /\ steps[tasks[id].i].name \in DOMAIN runs[id].approvals

\* the event loop resumes the executor's task, which runs to its next
\* suspension point: the steps of run_plan_begin, run_plan_step,
\* run_plan_health and run_plan_poll that move the task
run_plan_resumes(id) ==
  /\ Runnable(id)
  /\ tasks' \in [DOMAIN tasks -> TaskStates]
  /\ tasks'[id] # tasks[id]

\* The event loop resumes the executor's task whenever the sleep it is in
\* has elapsed (weak fairness on the task's segments), and a gate that
\* keeps waiting is sent a decision.
SpecLive ==
  /\ Init /\ [][NextLive]_vars
  /\ \A run_id \in RunIds :
       /\ WF_tasks(run_plan_resumes(run_id))
       /\ WF_vars(decide(run_id))

\* the run has ended completed or failed and finished is on its channel
EndedFinished(id) ==
  /\ id \in DOMAIN runs
  /\ runs[id].status \in {"completed", "failed"}
  /\ Published(id, "finished")

\* a step action raised and killed the executor's task
Raised(id) == id \in DOMAIN tasks /\ tasks[id].pc = "crashed"

\* C29: every started run eventually has status completed or failed and
\* has published a finished event, unless one of its step actions raised,
\* given that the executor is scheduled and every waiting gate is
\* eventually sent a decision.
C29_EveryRunFinishes ==
  \A id \in RunIds :
    (id \in DOMAIN runs) ~> (EndedFinished(id) \/ Raised(id))

\* a run that went through both gates and ended completed with finished
\* on its channel
C29_Witness ==
  \E id \in DOMAIN runs :
    /\ EndedFinished(id)
    /\ runs[id].status = "completed"
    /\ {"propose-fix", "merge-pr"} \subseteq DOMAIN runs[id].approvals
    /\ tasks[id].pc = "done"

\* ---------------------------------------------------------------- C30
\* subscriber s is handed an event in this step: the position of that event
\* in the log, 0 if the step hands s no event
HandedTo(s) ==
  IF /\ s \in DOMAIN subs /\ s \in DOMAIN subs'
     /\ Len(subs'[s].got) = Len(subs[s].got) + 1
    THEN subs'[s].got[Len(subs'[s].got)]
    ELSE 0

\* C30: the step list carried by a stateChanged event, read when the event
\* is delivered to an observer, is the list of step statuses the run had
\* when the event was published, whatever the executor did in between.
C30_DeliveredPlanAsPublished ==
  [][\A s \in Subscribers :
       LET k == HandedTo(s) IN
       (k # 0 /\ Log(subs[s].run)[k].plan = "ref") =>
         \A i \in 1..Len(steps) :
           StatusOf(subs[s].run, i) = StatusAt(subs[s].run, i, k)]_vars
====
